---- MODULE Spec2Model ----
(***************************************************************************)
(* Bounded concurrent transfer pipeline of the userbot: the TaskManager    *)
(* (identity counter, registry, lock, two semaphores), the command         *)
(* handlers that reserve and register tasks, the download and upload       *)
(* workers, the FFmpeg adapter and the FileManager cleanup.                *)
(*                                                                         *)
(* A "slot" is one accepted /download or /upload command: its handler      *)
(* coroutine up to register_task, then the worker coroutine that           *)
(* register_task creates.  Slots are numbered in the order the commands    *)
(* arrive.  Every action is the code between two suspension points of a    *)
(* coroutine; an await that can suspend (a lock or semaphore acquire, a    *)
(* transfer, a subprocess, a report, an executor job) ends an action.      *)
(***************************************************************************)
EXTENDS Integers, FiniteSets, Sequences, TLC

\* ------------------------------------------------------------------ bounds
NumTasks == 2
MaxDownloads == 1
MaxUploads == 1
MaxTime == 4
MaxBytes == 2
\* the `interval` given to create_progress_callback, in clock ticks
interval == 2

Slots == 1..NumTasks

\* the callbacks made by separate calls of create_progress_callback
Callbacks == {"cb1", "cb2"}

\* ------------------------------------------------------------- vocabulary
None == "None"
DOWNLOAD == "download"
UPLOAD == "upload"

Filenames == {"a.mp4", "b.txt"}

VIDEO_EXTENSIONS == {".mp4", ".mov", ".avi", ".mkv", ".flv", ".webm"}

suffix(p) == IF p \in {"a.mp4", "a_stream.mp4"} THEN ".mp4"
             ELSE IF p \in {"b.txt", "b_stream.txt"} THEN ".txt"
             ELSE ".jpg"

\* Path.with_stem(f"{stem}_stream")
with_stem_stream(p) ==
    CASE p = "a.mp4" -> "a_stream.mp4"
      [] p = "b.txt" -> "b_stream.txt"
      [] OTHER -> p

\* Path.with_suffix(".jpg")
with_suffix_jpg(p) ==
    CASE p = "a.mp4" -> "a.jpg"
      [] p = "a_stream.mp4" -> "a_stream.jpg"
      [] p = "b.txt" -> "b.jpg"
      [] p = "b_stream.txt" -> "b_stream.jpg"
      [] OTHER -> p

Paths == Filenames
         \cup {with_stem_stream(f) : f \in Filenames}
         \cup {with_suffix_jpg(f) : f \in Filenames}
         \cup {with_suffix_jpg(with_stem_stream(f)) : f \in Filenames}

\* ------------------------------------------------------------------ state
VARIABLES
    counter,        \* TaskManager._counter
    tasks,          \* TaskManager._tasks: task id -> Task record
    lock,           \* TaskManager._lock: 0 when free, else the slot holding it
    download_sem,   \* TaskManager.download_sem._value
    upload_sem,     \* TaskManager.upload_sem._value
    fs,             \* the files present in config.download_path
    pc,             \* slot -> position of its handler / worker coroutine
    task_type,      \* slot -> DOWNLOAD | UPLOAD
    filename,       \* slot -> the command's filename
    task_id,        \* slot -> the id reserve_task_id returned (0 before)
    thumb_path,     \* upload_worker local
    optimized_path, \* upload_worker local
    upload_path,    \* upload_worker local
    optimized,      \* upload_worker local
    pending,        \* slot -> paths whose unlink was handed to the executor
    permit,         \* slot -> the worker is inside its `async with` semaphore
    issued,         \* history: the ids returned by reserve_task_id, in order
    removeCalls,    \* history: slot -> number of remove_task calls it made
    outcome,        \* history: slot -> last terminal outcome logged
    transfer,       \* history: slot -> result of the transfer call
    sent,           \* history: slot -> path given to send_file
    meta,           \* history: slot -> what get_video_metadata yielded
    optResult,      \* history: slot -> how optimize_for_streaming ended
    cleaned,        \* history: slot -> paths cleanup_file was invoked on
    unlinkFailed,   \* history: slot -> paths whose unlink raised
    raised,         \* history: slot -> the worker coroutine ends by raising
    called,         \* the call last made directly on a component: op, args
    ret,            \* what that call returned
    now,            \* time.time()
    last_update,    \* progress callback -> last_update["time"] of its closure
    emitted         \* progress callback -> its last invocation logged a notification

shared == <<counter, tasks, lock, download_sem, upload_sem, fs>>
locals == <<task_type, filename, task_id, thumb_path, optimized_path,
            upload_path, optimized, pending, permit>>
history == <<issued, removeCalls, outcome, transfer, sent, meta, optResult,
             cleaned, unlinkFailed, raised>>
direct == <<called, ret, now, last_update, emitted>>
vars == <<shared, pc, locals, history, direct>>

\* ------------------------------------------------------------------- Init
Init ==
    /\ counter = 0
    /\ tasks = <<>>
    /\ lock = 0
    /\ download_sem = MaxDownloads
    /\ upload_sem = MaxUploads
    /\ fs \in SUBSET Filenames
    /\ pc = [s \in Slots |-> "idle"]
    /\ task_type = [s \in Slots |-> None]
    /\ filename = [s \in Slots |-> None]
    /\ task_id = [s \in Slots |-> 0]
    /\ thumb_path = [s \in Slots |-> None]
    /\ optimized_path = [s \in Slots |-> None]
    /\ upload_path = [s \in Slots |-> None]
    /\ optimized = [s \in Slots |-> FALSE]
    /\ pending = [s \in Slots |-> {}]
    /\ permit = [s \in Slots |-> FALSE]
    /\ issued = <<>>
    /\ removeCalls = [s \in Slots |-> 0]
    /\ outcome = [s \in Slots |-> None]
    /\ transfer = [s \in Slots |-> None]
    /\ sent = [s \in Slots |-> None]
    /\ meta = [s \in Slots |-> None]
    /\ optResult = [s \in Slots |-> None]
    /\ cleaned = [s \in Slots |-> {}]
    /\ unlinkFailed = [s \in Slots |-> {}]
    /\ raised = [s \in Slots |-> FALSE]
    /\ called = [op |-> None, args |-> <<>>]
    /\ ret = None
    /\ now = 1
    /\ last_update = [c \in Callbacks |-> 0]
    /\ emitted = [c \in Callbacks |-> FALSE]


\* ---------------------------------------------------------------- helpers
Set(f, s, v) == [f EXCEPT ![s] = v]

\* dict assignment  d[k] = v
Put(d, k, v) == [x \in DOMAIN d \cup {k} |-> IF x = k THEN v ELSE d[x]]

\* mutant: the entry is looked up with get() and stays in the dict
PopKeeps(d, k) == d

\* dict.pop(k, None), the dict afterwards
Pop(d, k) == [x \in DOMAIN d \ {k} |-> d[x]]

Task(id, tt, fname, obj) ==
    [task_id |-> id, task_type |-> tt, filename |-> fname, task_obj |-> obj]

\* the slot's locals and history once its coroutine object is gone; the
\* identity it was given and its remove_task count are kept
Forget(s) ==
    /\ filename' = Set(filename, s, None)
    /\ thumb_path' = Set(thumb_path, s, None)
    /\ optimized_path' = Set(optimized_path, s, None)
    /\ upload_path' = Set(upload_path, s, None)
    /\ optimized' = Set(optimized, s, FALSE)
    /\ pending' = Set(pending, s, {})
    /\ outcome' = Set(outcome, s, None)
    /\ transfer' = Set(transfer, s, None)
    /\ sent' = Set(sent, s, None)
    /\ meta' = Set(meta, s, None)
    /\ optResult' = Set(optResult, s, None)
    /\ cleaned' = Set(cleaned, s, {})
    /\ unlinkFailed' = Set(unlinkFailed, s, {})
    /\ raised' = Set(raised, s, FALSE)

\* --------------------------------------------------------------- handlers
\* commands are numbered in arrival order
Arrives(s) ==
    /\ pc[s] = "idle"
    /\ \A r \in Slots : r < s => pc[r] # "idle"

\* /upload <f>: the file must exist, else the handler returns
handle_upload(s, f) ==
    /\ Arrives(s)
    /\ f \in fs
    /\ pc' = Set(pc, s, "h_reserve")
    /\ task_type' = Set(task_type, s, UPLOAD)
    /\ filename' = Set(filename, s, f)
    /\ UNCHANGED <<shared, task_id, thumb_path, optimized_path, upload_path,
                   optimized, pending, permit, history>>
    /\ UNCHANGED direct

\* /download <f>: the file must not exist yet, else the handler returns
handle_download(s, f) ==
    /\ Arrives(s)
    /\ f \notin fs
    /\ pc' = Set(pc, s, "h_reserve")
    /\ task_type' = Set(task_type, s, DOWNLOAD)
    /\ filename' = Set(filename, s, f)
    /\ UNCHANGED <<shared, task_id, thumb_path, optimized_path, upload_path,
                   optimized, pending, permit, history>>
    /\ UNCHANGED direct

\* ------------------------------------------------------------ TaskManager
\* `async with self._lock`: the three callers wait here while it is held
LockEntry(p) ==
    CASE p = "h_reserve" -> "h_reserve_cs"
      [] p = "h_register" -> "h_register_cs"
      [] p = "w_remove" -> "w_remove_cs"
      [] OTHER -> p

lock_acquire(s) ==
    /\ pc[s] \in {"h_reserve", "h_register", "w_remove"}
    /\ lock = 0
    /\ lock' = s
    /\ pc' = Set(pc, s, LockEntry(pc[s]))
    /\ UNCHANGED <<counter, tasks, download_sem, upload_sem, fs, locals,
                   history>>
    /\ UNCHANGED direct

\* mutant: the counter stops advancing after the first identity
NextCounterStuck(c) == IF c = 0 THEN 1 ELSE c

\* self._counter += 1
NextCounter(c) == c + 1

\* mutant: the lock is kept when the call returns
reserve_task_id_holding(s) ==
    /\ pc[s] = "h_reserve_cs"
    /\ lock = s
    /\ counter' = NextCounter(counter)
    /\ task_id' = Set(task_id, s, counter')
    /\ issued' = Append(issued, counter')
    /\ pc' = Set(pc, s, "h_register")
    /\ UNCHANGED <<tasks, lock, download_sem, upload_sem, fs, task_type,
                   filename, thumb_path, optimized_path, upload_path,
                   optimized, pending, permit, removeCalls, outcome, transfer,
                   sent, meta, optResult, cleaned, unlinkFailed, raised>>
    /\ UNCHANGED direct

reserve_task_id(s) ==
    /\ pc[s] = "h_reserve_cs"
    /\ lock = s
    /\ counter' = NextCounter(counter)
    /\ task_id' = Set(task_id, s, counter')
    /\ issued' = Append(issued, counter')
    /\ lock' = 0
    /\ pc' = Set(pc, s, "h_register")
    /\ UNCHANGED <<tasks, download_sem, upload_sem, fs, task_type, filename,
                   thumb_path, optimized_path, upload_path, optimized,
                   pending, permit, removeCalls, outcome, transfer, sent,
                   meta, optResult, cleaned, unlinkFailed, raised>>
    /\ UNCHANGED direct

\* mutant: the worker is started and the entry is not recorded with it
register_task_late(s) ==
    /\ pc[s] = "h_register_cs"
    /\ lock = s
    /\ lock' = 0
    /\ pc' = Set(pc, s, "w_acquire")
    /\ UNCHANGED <<counter, tasks, download_sem, upload_sem, fs, locals,
                   history>>
    /\ UNCHANGED direct

\* mutant: the entry is recorded before the work handle exists
register_task_unstarted(s) ==
    /\ pc[s] = "h_register_cs"
    /\ lock = s
    /\ tasks' = Put(tasks, task_id[s],
                    Task(task_id[s], task_type[s], filename[s], 0))
    /\ lock' = 0
    /\ pc' = Set(pc, s, "w_acquire")
    /\ UNCHANGED <<counter, download_sem, upload_sem, fs, locals, history>>
    /\ UNCHANGED direct

\* create_task(coro) and the registry entry, under the lock; the worker
\* created here first runs after this step
register_task(s) ==
    /\ pc[s] = "h_register_cs"
    /\ lock = s
    /\ tasks' = Put(tasks, task_id[s],
                    Task(task_id[s], task_type[s], filename[s], s))
    /\ lock' = 0
    /\ pc' = Set(pc, s, "w_acquire")
    /\ UNCHANGED <<counter, download_sem, upload_sem, fs, locals, history>>
    /\ UNCHANGED direct

remove_task(s) ==
    /\ pc[s] = "w_remove_cs"
    /\ lock = s
    /\ tasks' = Pop(tasks, task_id[s])
    /\ removeCalls' = Set(removeCalls, s, removeCalls[s] + 1)
    /\ lock' = 0
    /\ pc' = Set(pc, s, "w_exit")
    /\ UNCHANGED <<counter, download_sem, upload_sem, fs, locals, issued,
                   outcome, transfer, sent, meta, optResult, cleaned,
                   unlinkFailed, raised>>
    /\ UNCHANGED direct

\* mutant: the filter on the kind is inverted
get_tasks_by_type_inverted(tt) ==
    {k \in DOMAIN tasks : tasks[k].task_type # tt}

get_tasks_by_type(tt) == {k \in DOMAIN tasks : tasks[k].task_type = tt}

get_all_tasks == DOMAIN tasks

get_task_count == Cardinality(DOMAIN tasks)


\* mutant: one semaphore serves both kinds
get_semaphore_shared(tt) == "download_sem"

get_semaphore(tt) == IF tt = DOWNLOAD THEN "download_sem" ELSE "upload_sem"

\* ------------------------------------------------------------- semaphores
\* mutant: the worker takes a permit without waiting for one to be free
SemAcquireNoWait(tt) ==
    IF get_semaphore(tt) = "download_sem"
    THEN /\ download_sem' = download_sem - 1
         /\ UNCHANGED upload_sem
    ELSE /\ upload_sem' = upload_sem - 1
         /\ UNCHANGED download_sem

\* Semaphore.acquire on the semaphore get_semaphore names: waits while the
\* value is 0
SemAcquire(tt) ==
    IF get_semaphore(tt) = "download_sem"
    THEN /\ download_sem > 0
         /\ download_sem' = download_sem - 1
         /\ UNCHANGED upload_sem
    ELSE /\ upload_sem > 0
         /\ upload_sem' = upload_sem - 1
         /\ UNCHANGED download_sem

\* Semaphore.release
SemRelease(tt) ==
    IF get_semaphore(tt) = "download_sem"
    THEN /\ download_sem' = download_sem + 1
         /\ UNCHANGED upload_sem
    ELSE /\ upload_sem' = upload_sem + 1
         /\ UNCHANGED download_sem

\* ------------------------------------------------------------ FileManager
\* cleanup_file up to its await: `if not file_path or not file_path.exists()`
\* returns False, else the unlink goes to the executor
ToUnlink(paths) == {p \in paths : p # None /\ p \in fs}

\* cleanup_files: one cleanup_file per path that is not None
CleanupArgs(paths) == {p \in paths : p # None}

\* the executor's unlinks: a path that is gone by now raises, a present one
\* is removed or raises OSError; cleanup_file catches both
Unlink(s, failing) ==
    /\ failing \subseteq pending[s]
    /\ (pending[s] \ fs) \subseteq failing
    /\ fs' = fs \ (pending[s] \ failing)
    /\ unlinkFailed' = Set(unlinkFailed, s, failing \cap fs)
    /\ pending' = Set(pending, s, {})

\* -------------------------------------------------------- download_worker
save_path(s) == filename[s]

download_worker_acquire(s) ==
    /\ pc[s] = "w_acquire"
    /\ task_type[s] = DOWNLOAD
    /\ SemAcquire(DOWNLOAD)
    /\ permit' = Set(permit, s, TRUE)
    /\ pc' = Set(pc, s, "d_start")
    /\ UNCHANGED <<counter, tasks, lock, fs, task_type, filename, task_id,
                   thumb_path, optimized_path, upload_path, optimized,
                   pending, history>>
    /\ UNCHANGED direct

\* the except clause a failed step of the try body lands in
DownloadHandler(how) == IF how = "timeout" THEN "d_timeout" ELSE "d_error"

DownloadOutcome(how) == IF how = "timeout" THEN "Timeout" ELSE "Failure"

\* wait_for(download_media(...)): the client opens the destination file, or
\* the call ends before it did
download_media_open(s, how) ==
    /\ pc[s] = "d_start"
    /\ IF how = "ok"
       THEN /\ fs' = fs \cup {save_path(s)}
            /\ pc' = Set(pc, s, "d_xfer")
            /\ UNCHANGED <<transfer, outcome>>
       ELSE /\ transfer' = Set(transfer, s, how)
            /\ outcome' = Set(outcome, s, DownloadOutcome(how))
            /\ pc' = Set(pc, s, DownloadHandler(how))
            /\ UNCHANGED fs
    /\ UNCHANGED <<counter, tasks, lock, download_sem, upload_sem, locals,
                   issued, removeCalls, sent, meta, optResult, cleaned,
                   unlinkFailed, raised>>
    /\ UNCHANGED direct

\* mutant: the semaphore is held around the transfer only and released when
\* the transfer ends
download_media_narrow(s, how) ==
    /\ pc[s] = "d_xfer"
    /\ transfer' = Set(transfer, s, how)
    /\ IF how = "ok"
       THEN /\ outcome' = Set(outcome, s, "Success")
            /\ pc' = Set(pc, s, "d_ok")
       ELSE /\ outcome' = Set(outcome, s, DownloadOutcome(how))
            /\ pc' = Set(pc, s, DownloadHandler(how))
    /\ download_sem' = download_sem + 1
    /\ permit' = Set(permit, s, FALSE)
    /\ UNCHANGED <<counter, tasks, lock, upload_sem, fs, task_type, filename,
                   task_id, thumb_path, optimized_path, upload_path,
                   optimized, pending, issued, removeCalls, sent, meta,
                   optResult, cleaned, unlinkFailed, raised>>
    /\ UNCHANGED direct

\* wait_for(download_media(...)) returns, or raises TimeoutError after
\* DOWNLOAD_TIMEOUT, or raises another error
download_media(s, how) ==
    /\ pc[s] = "d_xfer"
    /\ transfer' = Set(transfer, s, how)
    /\ IF how = "ok"
       THEN /\ outcome' = Set(outcome, s, "Success")
            /\ pc' = Set(pc, s, "d_ok")
       ELSE /\ outcome' = Set(outcome, s, DownloadOutcome(how))
            /\ pc' = Set(pc, s, DownloadHandler(how))
    /\ UNCHANGED <<shared, locals, issued, removeCalls, sent, meta,
                   optResult, cleaned, unlinkFailed, raised>>
    /\ UNCHANGED direct

\* event.respond("Download Complete"), inside the try body: an error it
\* raises is caught by `except Exception`
download_report_success(s, ok) ==
    /\ pc[s] = "d_ok"
    /\ IF ok
       THEN /\ pc' = Set(pc, s, "w_remove")
            /\ UNCHANGED outcome
       ELSE /\ pc' = Set(pc, s, "d_error")
            /\ outcome' = Set(outcome, s, "Failure")
    /\ UNCHANGED <<shared, locals, issued, removeCalls, transfer, sent, meta,
                   optResult, cleaned, unlinkFailed, raised>>
    /\ UNCHANGED direct

\* event.respond in an except clause, then cleanup_file(save_path) up to its
\* await; an error of respond leaves the clause for `finally`
download_report_failure(s, ok) ==
    /\ pc[s] \in {"d_timeout", "d_error"}
    /\ IF ok
       THEN /\ cleaned' = Set(cleaned, s, CleanupArgs({save_path(s)}))
            /\ pending' = Set(pending, s, ToUnlink({save_path(s)}))
            /\ pc' = Set(pc, s, IF ToUnlink({save_path(s)}) = {}
                                 THEN "w_remove" ELSE "w_unlink")
            /\ UNCHANGED raised
       ELSE /\ raised' = Set(raised, s, TRUE)
            /\ pc' = Set(pc, s, "w_remove")
            /\ UNCHANGED <<cleaned, pending>>
    /\ UNCHANGED <<shared, task_type, filename, task_id, thumb_path,
                   optimized_path, upload_path, optimized, permit, issued,
                   removeCalls, outcome, transfer, sent, meta, optResult,
                   unlinkFailed>>
    /\ UNCHANGED direct

\* ----------------------------------------------------------- both workers
\* the executor jobs of cleanup_file / cleanup_files finish; `finally` goes
\* on to remove_task
cleanup_file(s, failing) ==
    /\ pc[s] = "w_unlink"
    /\ Unlink(s, failing)
    /\ pc' = Set(pc, s, "w_remove")
    /\ UNCHANGED <<counter, tasks, lock, download_sem, upload_sem, task_type,
                   filename, task_id, thumb_path, optimized_path,
                   upload_path, optimized, permit, issued, removeCalls,
                   outcome, transfer, sent, meta, optResult, cleaned, raised>>
    /\ UNCHANGED direct

\* leaving `async with semaphore`: the permit goes back and the coroutine ends
worker_exit(s) ==
    /\ pc[s] = "w_exit"
    /\ SemRelease(task_type[s])
    /\ permit' = Set(permit, s, FALSE)
    /\ pc' = Set(pc, s, "done")
    /\ Forget(s)
    /\ UNCHANGED <<counter, tasks, lock, fs, task_type, task_id, issued,
                   removeCalls>>
    /\ UNCHANGED direct


\* ----------------------------------------------------------- FFmpegHelper
\* how a subprocess run ends: exit status 0, a non-zero status, the timeout
\* (the process is killed), the executable is missing, any other error
RunOutcomes == {"ok", "nonzero", "timeout", "notfound", "error"}

\* _run_command: stdout on exit status 0, FFmpegError otherwise
_run_command(run) == IF run = "ok" THEN "stdout" ELSE "FFmpegError"

\* what ffprobe -show_format prints: not JSON, or JSON whose format name
\* holds one of the video formats or none
FormatOutputs == {"malformed", "video", "other"}

\* check_if_video: every failure is caught and gives False
check_if_video(run, out) ==
    IF _run_command(run) = "FFmpegError" THEN FALSE
    ELSE IF out = "malformed" THEN FALSE
    ELSE out = "video"

\* optimize_for_streaming: the output path when the run succeeded and the
\* file is there, None otherwise
optimize_for_streaming(run, output_path, exists) ==
    IF _run_command(run) = "FFmpegError" THEN None
    ELSE IF exists THEN output_path
    ELSE None

\* what ffprobe -show_streams prints: not JSON (or a duration that is no
\* number), no video stream, or a video stream with its three fields, a
\* missing field read as 0; the values are kept as numerals, "0" or positive
Dims == {"0", "640"}
StreamOutputs == {<<"malformed">>, <<"novideo">>}
                 \cup {<<"video", w, h, d>> : w \in Dims, h \in Dims, d \in Dims}

NoMetadata == <<None, None, None>>

get_video_metadata(run, out) ==
    IF _run_command(run) = "FFmpegError" THEN NoMetadata
    ELSE IF out[1] = "malformed" THEN NoMetadata
    ELSE IF out[1] = "novideo" THEN NoMetadata
    ELSE <<out[2], out[3], out[4]>>

\* generate_thumbnail: the thumbnail path when the run succeeded and the file
\* is there, None otherwise
generate_thumbnail(run, thumb, exists) ==
    IF _run_command(run) = "FFmpegError" THEN None
    ELSE IF exists THEN thumb
    ELSE None

\* ffmpeg -y may have written its output file however the run ended, except
\* when the executable was never started
MayWrite(run) == IF run = "notfound" THEN {FALSE} ELSE BOOLEAN

\* ---------------------------------------------------------- upload_worker
original_path(s) == filename[s]

\* Python truthiness: None and 0 are false
Truthy(v) == v \notin {None, "0"}

\* mutant: any() in place of all()
AnyTruthy(m) == \E i \in 1..3 : Truthy(m[i])

\* all([width, height, duration])
AllTruthy(m) == \A i \in 1..3 : Truthy(m[i])

\* some value is absent or zero
Missing(m) == m[1] \in {None, "0"} \/ m[2] \in {None, "0"} \/ m[3] \in {None, "0"}

upload_worker_acquire(s) ==
    /\ pc[s] = "w_acquire"
    /\ task_type[s] = UPLOAD
    /\ SemAcquire(UPLOAD)
    /\ permit' = Set(permit, s, TRUE)
    /\ upload_path' = Set(upload_path, s, original_path(s))
    /\ pc' = Set(pc, s, "u_exists")
    /\ UNCHANGED <<counter, tasks, lock, fs, task_type, filename, task_id,
                   thumb_path, optimized_path, optimized, pending, history>>
    /\ UNCHANGED direct

\* mutant: the source file is not looked for
upload_worker_exists_unchecked(s) ==
    /\ pc[s] = "u_exists"
    /\ pc' = Set(pc, s, IF suffix(original_path(s)) \in VIDEO_EXTENSIONS
                         THEN "u_probe" ELSE "u_metadata")
    /\ UNCHANGED <<shared, locals, history>>
    /\ UNCHANGED direct

\* `if not original_path.exists(): raise FileNotFoundError`, then the
\* extension test
upload_worker_exists(s) ==
    /\ pc[s] = "u_exists"
    /\ IF original_path(s) \notin fs
       THEN /\ outcome' = Set(outcome, s, "NotFound")
            /\ pc' = Set(pc, s, "u_notfound")
       ELSE /\ pc' = Set(pc, s, IF suffix(original_path(s)) \in VIDEO_EXTENSIONS
                                 THEN "u_probe" ELSE "u_metadata")
            /\ UNCHANGED outcome
    /\ UNCHANGED <<shared, locals, issued, removeCalls, transfer, sent, meta,
                   optResult, cleaned, unlinkFailed, raised>>
    /\ UNCHANGED direct

\* mutant: the answer of the probe is ignored
upload_worker_probe_ignored(s, is_video) ==
    /\ pc[s] = "u_probe"
    /\ pc' = Set(pc, s, "u_optimize")
    /\ UNCHANGED <<shared, locals, history>>
    /\ UNCHANGED direct

\* await ffmpeg.check_if_video(original_path)
upload_worker_probe(s, is_video) ==
    /\ pc[s] = "u_probe"
    /\ pc' = Set(pc, s, IF is_video THEN "u_optimize" ELSE "u_metadata")
    /\ UNCHANGED <<shared, locals, history>>
    /\ UNCHANGED direct

\* mutant: the result of the optimization is used without testing it
upload_worker_optimize_untested(s, run, wrote) ==
    LET out == with_stem_stream(original_path(s))
        fs1 == IF wrote THEN fs \cup {out} ELSE fs
        res == optimize_for_streaming(run, out, out \in fs1)
    IN  /\ pc[s] = "u_optimize"
        /\ wrote \in MayWrite(run)
        /\ fs' = fs1
        /\ optimized_path' = Set(optimized_path, s, out)
        /\ optResult' = Set(optResult, s, IF res = None THEN "failed" ELSE "ok")
        /\ upload_path' = Set(upload_path, s, out)
        /\ optimized' = Set(optimized, s, TRUE)
        /\ pc' = Set(pc, s, "u_metadata")
        /\ UNCHANGED <<counter, tasks, lock, download_sem, upload_sem,
                       task_type, filename, task_id, thumb_path, pending,
                       permit, issued, removeCalls, outcome, transfer, sent,
                       meta, cleaned, unlinkFailed, raised>>
        /\ UNCHANGED direct

\* await ffmpeg.optimize_for_streaming(original_path) and the test of its
\* result; input_path.stat() raises FileNotFoundError when the input is gone
upload_worker_optimize(s, run, wrote) ==
    LET out == with_stem_stream(original_path(s))
        fs1 == IF wrote THEN fs \cup {out} ELSE fs
        res == optimize_for_streaming(run, out, out \in fs1)
    IN  /\ pc[s] = "u_optimize"
        /\ wrote \in MayWrite(run)
        /\ fs' = fs1
        /\ IF res # None /\ original_path(s) \notin fs1
           THEN /\ outcome' = Set(outcome, s, "NotFound")
                /\ pc' = Set(pc, s, "u_notfound")
                /\ UNCHANGED <<optimized_path, upload_path, optimized,
                               optResult>>
           ELSE /\ optimized_path' = Set(optimized_path, s, res)
                /\ optResult' = Set(optResult, s,
                                    IF res = None THEN "failed" ELSE "ok")
                /\ IF res # None /\ res \in fs1
                   THEN /\ upload_path' = Set(upload_path, s, res)
                        /\ optimized' = Set(optimized, s, TRUE)
                   ELSE UNCHANGED <<upload_path, optimized>>
                /\ pc' = Set(pc, s, "u_metadata")
                /\ UNCHANGED outcome
        /\ UNCHANGED <<counter, tasks, lock, download_sem, upload_sem,
                       task_type, filename, task_id, thumb_path, pending,
                       permit, issued, removeCalls, transfer, sent, meta,
                       cleaned, unlinkFailed, raised>>
        /\ UNCHANGED direct

\* await ffmpeg.get_video_metadata(upload_path), then
\* `if not all([width, height, duration]): raise ValueError`
upload_worker_metadata(s, m) ==
        /\ pc[s] = "u_metadata"
        /\ meta' = Set(meta, s, IF Missing(m) THEN "missing" ELSE "ok")
        /\ IF AllTruthy(m)
           THEN /\ pc' = Set(pc, s, "u_thumb")
                /\ UNCHANGED outcome
           ELSE /\ outcome' = Set(outcome, s, "Failure")
                /\ pc' = Set(pc, s, "u_error")
        /\ UNCHANGED <<shared, locals, issued, removeCalls, transfer, sent,
                       optResult, cleaned, unlinkFailed, raised>>
        /\ UNCHANGED direct

\* mutant: a thumbnail that could not be made is an error of the upload
upload_worker_thumbnail_required(s, run, wrote) ==
    LET thumb == with_suffix_jpg(upload_path[s])
        fs1 == IF wrote THEN fs \cup {thumb} ELSE fs
        res == generate_thumbnail(run, thumb, thumb \in fs1)
    IN  /\ pc[s] = "u_thumb"
        /\ wrote \in MayWrite(run)
        /\ fs' = fs1
        /\ thumb_path' = Set(thumb_path, s, res)
        /\ IF res = None
           THEN /\ outcome' = Set(outcome, s, "Failure")
                /\ pc' = Set(pc, s, "u_error")
           ELSE /\ pc' = Set(pc, s, "u_send")
                /\ UNCHANGED outcome
        /\ UNCHANGED <<counter, tasks, lock, download_sem, upload_sem,
                       task_type, filename, task_id, optimized_path,
                       upload_path, optimized, pending, permit, issued,
                       removeCalls, transfer, sent, meta, optResult, cleaned,
                       unlinkFailed, raised>>
        /\ UNCHANGED direct

\* await ffmpeg.generate_thumbnail(upload_path, ...)
upload_worker_thumbnail(s, run, wrote) ==
    LET thumb == with_suffix_jpg(upload_path[s])
        fs1 == IF wrote THEN fs \cup {thumb} ELSE fs
    IN  /\ pc[s] = "u_thumb"
        /\ wrote \in MayWrite(run)
        /\ fs' = fs1
        /\ thumb_path' = Set(thumb_path, s,
                             generate_thumbnail(run, thumb, thumb \in fs1))
        /\ pc' = Set(pc, s, "u_send")
        /\ UNCHANGED <<counter, tasks, lock, download_sem, upload_sem,
                       task_type, filename, task_id, optimized_path,
                       upload_path, optimized, pending, permit, history>>
        /\ UNCHANGED direct

\* mutant: the original file is the one sent
upload_worker_send_original(s, how) ==
    /\ pc[s] = "u_send"
    /\ sent' = Set(sent, s, original_path(s))
    /\ transfer' = Set(transfer, s, how)
    /\ IF how = "ok"
       THEN /\ outcome' = Set(outcome, s, "Success")
            /\ pc' = Set(pc, s, "u_ok")
       ELSE /\ outcome' = Set(outcome, s, "Failure")
            /\ pc' = Set(pc, s, "u_error")
    /\ UNCHANGED <<shared, locals, issued, removeCalls, meta, optResult,
                   cleaned, unlinkFailed, raised>>
    /\ UNCHANGED direct

\* await client.send_file(GUDANG_CHAT_ID, str(upload_path), ...): no timeout
\* around it; it returns or raises
upload_worker_send(s, how) ==
    /\ pc[s] = "u_send"
    /\ sent' = Set(sent, s, upload_path[s])
    /\ transfer' = Set(transfer, s, how)
    /\ IF how = "ok"
       THEN /\ outcome' = Set(outcome, s, "Success")
            /\ pc' = Set(pc, s, "u_ok")
       ELSE /\ outcome' = Set(outcome, s, "Failure")
            /\ pc' = Set(pc, s, "u_error")
    /\ UNCHANGED <<shared, locals, issued, removeCalls, meta, optResult,
                   cleaned, unlinkFailed, raised>>
    /\ UNCHANGED direct

\* mutant: the source file is left out of the cleanup
UploadCleanupPathsNoSource(s) ==
    {thumb_path[s],
     IF optimized_path[s] # original_path(s) THEN optimized_path[s] ELSE None}

\* the arguments of cleanup_files in `finally`
UploadCleanupPaths(s) ==
    {thumb_path[s],
     IF optimized_path[s] # original_path(s) THEN optimized_path[s] ELSE None,
     original_path(s)}

\* `finally`: cleanup_files(...) up to the await of its executor jobs
upload_worker_finally(s) ==
    /\ cleaned' = Set(cleaned, s, CleanupArgs(UploadCleanupPaths(s)))
    /\ pending' = Set(pending, s, ToUnlink(UploadCleanupPaths(s)))
    /\ pc' = Set(pc, s, IF ToUnlink(UploadCleanupPaths(s)) = {}
                         THEN "w_remove" ELSE "w_unlink")

\* event.respond("Upload Complete"), inside the try body: an error it raises
\* is caught by `except Exception`
upload_report_success(s, ok) ==
    /\ pc[s] = "u_ok"
    /\ IF ok
       THEN /\ upload_worker_finally(s)
            /\ UNCHANGED outcome
       ELSE /\ pc' = Set(pc, s, "u_error")
            /\ outcome' = Set(outcome, s, "Failure")
            /\ UNCHANGED <<cleaned, pending>>
    /\ UNCHANGED <<shared, task_type, filename, task_id, thumb_path,
                   optimized_path, upload_path, optimized, permit, issued,
                   removeCalls, transfer, sent, meta, optResult,
                   unlinkFailed, raised>>
    /\ UNCHANGED direct

\* event.respond in an except clause (File Not Found, Upload Failed); whether
\* it returns or raises, `finally` runs next
upload_report_failure(s, ok) ==
    /\ pc[s] \in {"u_notfound", "u_error"}
    /\ raised' = Set(raised, s, ~ok)
    /\ upload_worker_finally(s)
    /\ UNCHANGED <<shared, task_type, filename, task_id, thumb_path,
                   optimized_path, upload_path, optimized, permit, issued,
                   removeCalls, outcome, transfer, sent, meta, optResult,
                   unlinkFailed>>
    /\ UNCHANGED direct

\* what the adapter can hand the worker, over every way a run can end
ProbeResults ==
    {check_if_video(run, out) : run \in RunOutcomes, out \in FormatOutputs}

MetadataResults ==
    {get_video_metadata(run, out) : run \in RunOutcomes, out \in StreamOutputs}

\* ------------------------------------------------------------------- Next
TransferOutcomes == {"ok", "timeout", "error"}

Next ==
    \/ \E s \in Slots, f \in Filenames : handle_upload(s, f)
    \/ \E s \in Slots, f \in Filenames : handle_download(s, f)
    \/ \E s \in Slots : lock_acquire(s)
    \/ \E s \in Slots : reserve_task_id(s)
    \/ \E s \in Slots : register_task(s)
    \/ \E s \in Slots : remove_task(s)
    \/ \E s \in Slots : download_worker_acquire(s)
    \/ \E s \in Slots, how \in TransferOutcomes : download_media_open(s, how)
    \/ \E s \in Slots, how \in TransferOutcomes : download_media(s, how)
    \/ \E s \in Slots, ok \in BOOLEAN : download_report_success(s, ok)
    \/ \E s \in Slots, ok \in BOOLEAN : download_report_failure(s, ok)
    \/ \E s \in Slots : upload_worker_acquire(s)
    \/ \E s \in Slots : upload_worker_exists(s)
    \/ \E s \in Slots, is_video \in ProbeResults :
           upload_worker_probe(s, is_video)
    \/ \E s \in Slots, run \in RunOutcomes, wrote \in BOOLEAN :
           upload_worker_optimize(s, run, wrote)
    \/ \E s \in Slots, m \in MetadataResults :
           upload_worker_metadata(s, m)
    \/ \E s \in Slots, run \in RunOutcomes, wrote \in BOOLEAN :
           upload_worker_thumbnail(s, run, wrote)
    \/ \E s \in Slots, how \in {"ok", "error"} : upload_worker_send(s, how)
    \/ \E s \in Slots, ok \in BOOLEAN : upload_report_success(s, ok)
    \/ \E s \in Slots, ok \in BOOLEAN : upload_report_failure(s, ok)
    \/ \E s \in Slots : \E failing \in SUBSET pending[s] :
           cleanup_file(s, failing)
    \/ \E s \in Slots : worker_exit(s)

Spec == Init /\ [][Next]_vars


\* every coroutine that can run is run: the event loop resumes each handler
\* and worker whose awaited call has ended; commands need not arrive
Step(s) ==
    \/ lock_acquire(s)
    \/ reserve_task_id(s)
    \/ register_task(s)
    \/ remove_task(s)
    \/ download_worker_acquire(s)
    \/ \E how \in TransferOutcomes : download_media_open(s, how)
    \/ \E how \in TransferOutcomes : download_media(s, how)
    \/ \E ok \in BOOLEAN : download_report_success(s, ok)
    \/ \E ok \in BOOLEAN : download_report_failure(s, ok)
    \/ upload_worker_acquire(s)
    \/ upload_worker_exists(s)
    \/ \E is_video \in ProbeResults : upload_worker_probe(s, is_video)
    \/ \E run \in RunOutcomes, wrote \in BOOLEAN :
           upload_worker_optimize(s, run, wrote)
    \/ \E m \in MetadataResults : upload_worker_metadata(s, m)
    \/ \E run \in RunOutcomes, wrote \in BOOLEAN :
           upload_worker_thumbnail(s, run, wrote)
    \/ \E how \in {"ok", "error"} : upload_worker_send(s, how)
    \/ \E ok \in BOOLEAN : upload_report_success(s, ok)
    \/ \E ok \in BOOLEAN : upload_report_failure(s, ok)
    \/ \E failing \in SUBSET pending[s] : cleanup_file(s, failing)
    \/ worker_exit(s)

FairSpec == Spec /\ \A s \in Slots : WF_vars(Step(s))

\* ------------------------------------------------------------ vocabulary
\* positions inside `async with semaphore:`
DownloadBody == {"d_start", "d_xfer", "d_ok", "d_timeout", "d_error",
                 "w_unlink", "w_remove", "w_remove_cs", "w_exit"}

UploadBody == {"u_exists", "u_probe", "u_optimize", "u_metadata", "u_thumb",
               "u_send", "u_ok", "u_notfound", "u_error",
               "w_unlink", "w_remove", "w_remove_cs", "w_exit"}

\* positions of the pipeline stages proper, before any terminal outcome
Stages == {"d_start", "d_xfer", "u_exists", "u_probe", "u_optimize",
           "u_metadata", "u_thumb", "u_send"}

InBody(s, tt) ==
    /\ task_type[s] = tt
    /\ pc[s] \in (IF tt = DOWNLOAD THEN DownloadBody ELSE UploadBody)

Registered(s) ==
    /\ task_id[s] \in DOMAIN tasks
    /\ tasks[task_id[s]].task_obj = s

\* the slot's entry has just left the registry and its permit is not yet back
Deregistered(s) == pc[s] = "w_exit"

\* ------------------------------------------------------------------ C1
\* C1: in every reachable state the number of download workers inside the
\* download semaphore's body is at most max_downloads, and the number of
\* upload workers inside the upload semaphore's body is at most max_uploads.
C1_Capacity ==
    /\ Cardinality({s \in Slots : InBody(s, DOWNLOAD)}) <= MaxDownloads
    /\ Cardinality({s \in Slots : InBody(s, UPLOAD)}) <= MaxUploads

\* a full download pool with a further registered download waiting for it
C1_Witness ==
    /\ Cardinality({s \in Slots : InBody(s, DOWNLOAD)}) = MaxDownloads
    /\ download_sem = 0
    /\ \E s \in Slots : pc[s] = "w_acquire" /\ task_type[s] = DOWNLOAD

\* ------------------------------------------------------------------ C2
\* C2: every registered task's worker calls remove_task for its own id
\* exactly once, on every exit path (success, timeout, a stage raising, an
\* upload whose source is missing), and the entry is eventually absent from
\* the registry.
C2_RemoveOnce ==
    \A s \in Slots :
        /\ removeCalls[s] <= 1
        /\ pc[s] \in {"w_exit", "done"} =>
               removeCalls[s] = 1 /\ ~Registered(s)
        /\ pc[s] \in (DownloadBody \cup UploadBody \cup {"w_acquire"}) \ {"w_exit"}
               => removeCalls[s] = 0 /\ Registered(s)

C2_RemovedExactlyOnce ==
    /\ C2_RemoveOnce
    /\ [][C2_RemoveOnce']_vars
    /\ \A s \in Slots : Registered(s) ~> (pc[s] = "done" /\ ~Registered(s))

\* an upload that found its source missing has been deregistered, once
C2_Witness ==
    \E s \in Slots :
        /\ Deregistered(s)
        /\ outcome[s] = "NotFound"
        /\ removeCalls[s] = 1
        /\ ~Registered(s)

\* ------------------------------------------------------------------ C3
\* C3: the identities reserve_task_id returns, in the order the calls
\* return, are 1, 2, ..., N: no duplicates, none skipped, each call that
\* returns later gets a strictly larger identity.
C3_Identities ==
    /\ issued = [i \in 1..Len(issued) |-> i]
    /\ counter = Len(issued)
    /\ \A s, r \in Slots :
           s # r /\ task_id[s] # 0 /\ task_id[r] # 0 => task_id[s] # task_id[r]
    /\ {task_id[s] : s \in Slots} \ {0} = 1..counter

\* all N calls have returned, and the command that arrived second was served
\* first
C3_Witness ==
    /\ Len(issued) = NumTasks
    /\ task_id[1] = 2
    /\ task_id[2] = 1


\* ------------------------------------------------------------------ C4
\* C4: in both workers every pipeline step, the terminal report, the cleanup
\* and remove_task run only while the worker holds its kind's permit, and
\* the permit is released only after remove_task has run.
C4_HoldsInBody ==
    \A s \in Slots :
        /\ pc[s] \in DownloadBody \cup UploadBody => permit[s]
        /\ permit[s] => task_type[s] \in {DOWNLOAD, UPLOAD}

C4_ReleaseAfterRemove ==
    \A s \in Slots :
        permit[s] /\ ~permit'[s] =>
            /\ removeCalls[s] = 1
            /\ ~Registered(s)
            /\ pc[s] = "w_exit"

C4_PermitHeld ==
    /\ C4_HoldsInBody
    /\ [][C4_HoldsInBody' /\ C4_ReleaseAfterRemove]_vars

\* an upload worker whose remove_task has run and that still holds its permit
C4_Witness ==
    \E s \in Slots :
        /\ task_type[s] = UPLOAD
        /\ Deregistered(s)
        /\ permit[s]
        /\ upload_sem < MaxUploads
        /\ removeCalls[s] = 1

\* ------------------------------------------------------------------ C5
\* no other command has arrived: what happens to the slot's files is the
\* slot's own doing
Alone(s) == \A r \in Slots \ {s} : pc[r] = "idle"

\* C5: once a terminal outcome is reached no further pipeline stage runs,
\* and whenever cleanup is due (a download whose transfer timed out or
\* failed, every upload) it has been carried out by the time the task's
\* entry has left the registry, also when the terminal report failed.
C5_CleanupBeforeRemove ==
    \A s \in Slots :
        /\ outcome[s] # None => pc[s] \notin Stages
        /\ Deregistered(s) /\ task_type[s] = UPLOAD =>
               original_path(s) \in cleaned[s] /\ pending[s] = {}
        /\ Deregistered(s) /\ task_type[s] = DOWNLOAD
                           /\ transfer[s] \in {"timeout", "error"} =>
               save_path(s) \in cleaned[s] /\ pending[s] = {}

\* ------------------------------------------------------------------ C6
\* C6: a download whose transfer never completes ends in Timeout with the
\* destination file absent from disk and its entry removed from the
\* registry (no unlink having failed, no other task around).
C6_TimeoutLeavesNoFile ==
    \A s \in Slots :
        /\ task_type[s] = DOWNLOAD
        /\ Deregistered(s)
        /\ transfer[s] = "timeout"
        /\ unlinkFailed[s] = {}
        /\ Alone(s)
        => /\ outcome[s] = "Timeout"
           /\ save_path(s) \notin fs
           /\ ~Registered(s)

\* ------------------------------------------------------------------ C7
\* C7: a download worker whose transfer completed within the timeout never
\* deletes the destination file: it is still on disk when the task is
\* deregistered, whatever happens after the transfer (no other task around).
C7_DeliverableKept ==
    \A s \in Slots :
        /\ task_type[s] = DOWNLOAD
        /\ Deregistered(s)
        /\ transfer[s] = "ok"
        => /\ save_path(s) \notin cleaned[s]
           /\ Alone(s) => save_path(s) \in fs

\* ------------------------------------------------------------------ C8
\* C8 as stated: whenever metadata extraction yields an absent or zero
\* width, height or duration, the upload ends in Failure, send_file is never
\* invoked, and the source file is gone after cleanup.
C8_Original ==
    \A s \in Slots :
        task_type[s] = UPLOAD /\ Deregistered(s) /\ meta[s] = "missing" =>
            /\ outcome[s] = "Failure"
            /\ sent[s] = None
            /\ original_path(s) \notin fs

\* C8 (amended): whenever metadata extraction yields an absent or zero
\* width, height or duration, the upload ends in Failure, no thumbnail or
\* transfer step runs, send_file is never invoked, and cleanup_file is still
\* invoked on the source file before the task is deregistered; with no other
\* task around the file is then gone unless its unlink failed.
C8_MetadataMandatory ==
    \A s \in Slots :
        task_type[s] = UPLOAD /\ meta[s] = "missing" =>
            /\ outcome[s] = "Failure"
            /\ sent[s] = None
            /\ thumb_path[s] = None
            /\ pc[s] \notin Stages \cup {"u_ok"}
            /\ Deregistered(s) =>
                   /\ original_path(s) \in cleaned[s]
                   /\ pending[s] = {}
                   /\ Alone(s) /\ original_path(s) \in fs =>
                          original_path(s) \in unlinkFailed[s]

\* an upload deregistered after a metadata failure, its source file removed
C8_Witness ==
    \E s \in Slots :
        /\ task_type[s] = UPLOAD
        /\ Deregistered(s)
        /\ meta[s] = "missing"
        /\ outcome[s] = "Failure"
        /\ original_path(s) \in cleaned[s]
        /\ original_path(s) \notin fs

\* ------------------------------------------------------------------ C9
\* C9 as stated: when optimization fails or leaves no output and metadata
\* extraction on the original succeeds, the task ends in Success with
\* optimized = false, the original is the file sent, it is gone after the
\* send, and no removal of an optimized file is attempted.
C9_Original ==
    \A s \in Slots :
        /\ task_type[s] = UPLOAD
        /\ Deregistered(s)
        /\ optResult[s] = "failed"
        /\ meta[s] = "ok"
        => /\ outcome[s] = "Success"
           /\ ~optimized[s]
           /\ sent[s] = original_path(s)
           /\ original_path(s) \notin fs
           /\ with_stem_stream(original_path(s)) \notin cleaned[s]

\* C9 (amended): when optimization fails or leaves no output, the pipeline
\* goes on with the original file and optimized = false; if metadata
\* extraction on the original succeeds the original is the file given to
\* send_file, and the task ends in Success unless send_file or the Success
\* report raises (then in Failure); cleanup_file is invoked on the original
\* after the send and on no optimized file; with no other task around the
\* original is then gone unless its unlink failed.
C9_OptimizationFallback ==
    \A s \in Slots :
        task_type[s] = UPLOAD /\ optResult[s] = "failed" =>
            /\ ~optimized[s]
            /\ optimized_path[s] = None
            /\ upload_path[s] = original_path(s)
            /\ outcome[s] = "Success" => transfer[s] = "ok"
            /\ transfer[s] = "error" => outcome[s] = "Failure"
            /\ Deregistered(s) /\ meta[s] = "ok" =>
                   /\ sent[s] = original_path(s)
                   /\ outcome[s] \in {"Success", "Failure"}
                   /\ original_path(s) \in cleaned[s]
                   /\ with_stem_stream(original_path(s)) \notin cleaned[s]
                   /\ pending[s] = {}
                   /\ Alone(s) /\ original_path(s) \in fs =>
                          original_path(s) \in unlinkFailed[s]

\* an upload that fell back to the original, sent it, reported Success and
\* removed it
C9_Witness ==
    \E s \in Slots :
        /\ task_type[s] = UPLOAD
        /\ Deregistered(s)
        /\ optResult[s] = "failed"
        /\ meta[s] = "ok"
        /\ outcome[s] = "Success"
        /\ sent[s] = original_path(s)
        /\ original_path(s) \notin fs

\* ------------------------------------------------------------------ C10
\* C10 as stated: for every upload worker that acquired its permit, removal
\* of the source file has been attempted by the time the task is
\* deregistered, and the source file is then absent from disk.
C10_Original ==
    \A s \in Slots :
        task_type[s] = UPLOAD /\ Deregistered(s) =>
            /\ original_path(s) \in cleaned[s]
            /\ original_path(s) \notin fs

\* C10 (amended): for every upload worker that acquired its permit,
\* cleanup_file has been invoked on the source file and has returned by the
\* time remove_task is called, on every exit path; when cleanup_file finds
\* a file, that file is absent when the call returns unless its unlink failed.
C10_Attempted ==
    \A s \in Slots :
        task_type[s] = UPLOAD /\ pc[s] \in {"w_remove", "w_remove_cs", "w_exit"}
            => original_path(s) \in cleaned[s] /\ pending[s] = {}

C10_UnlinkEffect ==
    \A s \in Slots :
        pc[s] = "w_unlink" /\ pc'[s] # "w_unlink" =>
            \A p \in pending[s] : p \in fs' => p \in unlinkFailed'[s]

C10_SourceRemoval ==
    /\ C10_Attempted
    /\ [][C10_Attempted' /\ C10_UnlinkEffect]_vars

\* an upload deregistered after a failed transfer, its source file removed
C10_Witness ==
    \E s \in Slots :
        /\ task_type[s] = UPLOAD
        /\ Deregistered(s)
        /\ transfer[s] = "error"
        /\ original_path(s) \in cleaned[s]
        /\ original_path(s) \notin fs

\* ------------------------------------------------------------------ C11
\* The TaskManager driven directly: any caller, any arguments.  The lock is
\* free whenever a call starts, so each call runs to its return in one step.
TaskIds == 1..(NumTasks + 1)

Call(op, args) == [op |-> op, args |-> args]

\* mutant: pop(task_id) without a default
PopNoDefaultRaises(d, k) == k \notin DOMAIN d

\* dict.pop(k, None) raises KeyError: never, the default is returned
PopRaises(d, k) == FALSE

call_reserve_task_id ==
    /\ counter < NumTasks + 1
    /\ counter' = NextCounter(counter)
    /\ called' = Call("reserve_task_id", <<>>)
    /\ ret' = counter'
    /\ UNCHANGED <<tasks, lock, download_sem, upload_sem, fs, pc, locals,
                   history, now, last_update, emitted>>

\* the handlers register an identity they reserved
call_register_task(id, tt, f) ==
    /\ id \in 1..counter
    /\ tasks' = Put(tasks, id, Task(id, tt, f, "task_obj"))
    /\ called' = Call("register_task", <<id, tt, f>>)
    /\ ret' = "task_obj"
    /\ UNCHANGED <<counter, lock, download_sem, upload_sem, fs, pc, locals,
                   history, now, last_update, emitted>>

call_remove_task(id) ==
    /\ called' = Call("remove_task", <<id>>)
    /\ IF PopRaises(tasks, id)
       THEN /\ ret' = "KeyError"
            /\ UNCHANGED tasks
       ELSE /\ ret' = None
            /\ tasks' = Pop(tasks, id)
    /\ UNCHANGED <<counter, lock, download_sem, upload_sem, fs, pc, locals,
                   history, now, last_update, emitted>>

ManagerNext ==
    \/ call_reserve_task_id
    \/ \E id \in TaskIds, tt \in {DOWNLOAD, UPLOAD}, f \in Filenames :
           call_register_task(id, tt, f)
    \/ \E id \in TaskIds : call_remove_task(id)

ManagerSpec == Init /\ [][ManagerNext]_vars

\* C11: remove_task is idempotent: called with an id that was never
\* registered or is already removed it raises no error and leaves the
\* registry, the identity counter and both semaphores unchanged; for a live
\* id the entry is gone afterwards (so a second call changes nothing more),
\* and no other task's entry is affected.
C11_RemoveStep ==
    \A id \in TaskIds :
        called'.op = "remove_task" /\ called'.args = <<id>> =>
            /\ ret' = None
            /\ counter' = counter
            /\ download_sem' = download_sem
            /\ upload_sem' = upload_sem
            /\ id \notin DOMAIN tasks => tasks' = tasks
            /\ id \notin DOMAIN tasks'
            /\ DOMAIN tasks' = DOMAIN tasks \ {id}
            /\ \A k \in DOMAIN tasks' : tasks'[k] = tasks[k]

C11_Idempotent == [][C11_RemoveStep]_vars

\* remove_task was called with an id that was never reserved, while another
\* task is registered
C11_Witness ==
    /\ called.op = "remove_task"
    /\ called.args[1] > counter
    /\ ret = None
    /\ DOMAIN tasks # {}

\* ------------------------------------------------------------------ C12
\* FileManager.cleanup_file called directly, one call after the other, on any
\* path; between calls a download or an ffmpeg run may write a file.
\* mutant: the unlink is not wrapped in try/except
CleanupReturnUnguarded(found, failed) ==
    IF ~found THEN "False" ELSE IF failed THEN "OSError" ELSE "True"

\* what cleanup_file returns: False from the guard, False from the except
\* clause, True after the unlink
CleanupReturn(found, failed) ==
    IF ~found THEN "False" ELSE IF failed THEN "False" ELSE "True"

call_cleanup_file(p, failed) ==
    LET found == ToUnlink({p}) # {}
    IN  /\ failed => found
        /\ fs' = IF found /\ ~failed THEN fs \ {p} ELSE fs
        /\ called' = Call("cleanup_file", <<p>>)
        /\ ret' = CleanupReturn(found, failed)
        /\ UNCHANGED <<counter, tasks, lock, download_sem, upload_sem, pc,
                       locals, history, now, last_update, emitted>>

\* a transfer or an ffmpeg run writes a file
file_written(p) ==
    /\ p \notin fs
    /\ fs' = fs \cup {p}
    /\ called' = Call("write", <<p>>)
    /\ ret' = None
    /\ UNCHANGED <<counter, tasks, lock, download_sem, upload_sem, pc,
                   locals, history, now, last_update, emitted>>

FileNext ==
    \/ \E p \in Paths \cup {None}, failed \in BOOLEAN :
           call_cleanup_file(p, failed)
    \/ \E p \in Paths : file_written(p)

FileSpec == Init /\ [][FileNext]_vars

\* C12: cleanup_file never raises and returns a boolean: on an existing file
\* whose unlink succeeds it removes the file and returns True; a second call
\* on the same path, nothing having re-created it, returns False and changes
\* nothing; a None or missing path returns False; a failing unlink returns
\* False.
C12_CleanupStep ==
    \A p \in Paths \cup {None}, failed \in BOOLEAN :
        call_cleanup_file(p, failed) =>
            /\ ret' \in {"True", "False"}
            /\ p \in fs /\ ~failed => ret' = "True" /\ fs' = fs \ {p}
            /\ p = None \/ p \notin fs => ret' = "False" /\ fs' = fs
            /\ failed => ret' = "False" /\ fs' = fs
            /\ called = Call("cleanup_file", <<p>>) /\ ret = "True" =>
                   ret' = "False" /\ fs' = fs

Live(s) ==
    pc[s] \in ({"w_acquire"} \cup DownloadBody \cup UploadBody) \ {"w_exit"}

\* handle_status: its three reads, with no await between them
handle_status ==
    [tasks |-> get_all_tasks,
     downloads |-> get_tasks_by_type(DOWNLOAD),
     uploads |-> get_tasks_by_type(UPLOAD)]

\* C13: whatever the interleaving with register_task and remove_task, what
\* get_all_tasks, get_tasks_by_type and get_task_count return is the registry
\* with no registration or removal half-done: each listed task has its id,
\* kind, filename and an already-created work handle, and the tasks listed
\* are exactly those fully registered and not yet removed.
C13_SnapshotConsistent ==
    /\ \A k \in handle_status.tasks :
           /\ tasks[k].task_id = k
           /\ tasks[k].task_type \in {DOWNLOAD, UPLOAD}
           /\ tasks[k].filename \in Filenames
           /\ tasks[k].task_obj \in Slots
           /\ task_id[tasks[k].task_obj] = k
           /\ task_type[tasks[k].task_obj] = tasks[k].task_type
           /\ filename[tasks[k].task_obj] = tasks[k].filename
           /\ Live(tasks[k].task_obj)
    /\ \A s \in Slots : Live(s) => task_id[s] \in handle_status.tasks
    /\ handle_status.downloads \cup handle_status.uploads = handle_status.tasks
    /\ handle_status.downloads \cap handle_status.uploads = {}
    /\ handle_status.downloads =
           {task_id[s] : s \in {r \in Slots : Live(r) /\ task_type[r] = DOWNLOAD}}
    /\ get_task_count = Cardinality({s \in Slots : Live(s)})

\* a snapshot taken while one registration is inside register_task and one
\* worker is about to call remove_task: it lists the latter only
C13_Witness ==
    \E s, r \in Slots :
        /\ pc[s] = "h_register_cs"
        /\ pc[r] = "w_remove"
        /\ get_task_count = 1
        /\ handle_status.tasks = {task_id[r]}

\* ------------------------------------------------------------------ C14
\* task_obj.cancel(): CancelledError is thrown into the worker at the await
\* it is suspended in.  It is a BaseException: no `except Exception` clause
\* catches it, a `finally` it passes through runs.  A free lock is taken
\* without suspending, so remove_task is no cancellation point.
DownloadAwaits == {"d_start", "d_xfer", "d_ok", "d_timeout", "d_error"}

UploadAwaits == {"u_probe", "u_optimize", "u_metadata", "u_thumb", "u_send",
                 "u_ok", "u_notfound", "u_error"}

\* at `async with semaphore`, before `try`: the coroutine ends there
cancel_waiting(s) ==
    /\ pc[s] = "w_acquire"
    /\ pc' = Set(pc, s, "done")
    /\ Forget(s)
    /\ UNCHANGED <<shared, task_type, task_id, permit, issued, removeCalls,
                   direct>>

\* in the try body or an except clause of download_worker: `finally` runs
\* remove_task
cancel_download(s) ==
    /\ task_type[s] = DOWNLOAD
    /\ pc[s] \in DownloadAwaits
    /\ pc' = Set(pc, s, "w_remove")
    /\ UNCHANGED <<shared, locals, history, direct>>

\* in cleanup_file of an except clause of download_worker: the executor job
\* ran or was dropped; `finally` runs remove_task
cancel_download_cleanup(s, failing) ==
    /\ task_type[s] = DOWNLOAD
    /\ pc[s] = "w_unlink"
    /\ Unlink(s, failing)
    /\ pc' = Set(pc, s, "w_remove")
    /\ UNCHANGED <<counter, tasks, lock, download_sem, upload_sem, task_type,
                   filename, task_id, thumb_path, optimized_path,
                   upload_path, optimized, permit, issued, removeCalls,
                   outcome, transfer, sent, meta, optResult, cleaned, raised,
                   direct>>

\* in the try body or an except clause of upload_worker: `finally` starts
\* with cleanup_files
cancel_upload(s) ==
    /\ task_type[s] = UPLOAD
    /\ pc[s] \in UploadAwaits
    /\ upload_worker_finally(s)
    /\ UNCHANGED <<shared, task_type, filename, task_id, thumb_path,
                   optimized_path, upload_path, optimized, permit, issued,
                   removeCalls, outcome, transfer, sent, meta, optResult,
                   unlinkFailed, raised, direct>>

\* in cleanup_files of upload_worker's `finally`: the error leaves the
\* clause before remove_task; `async with` gives the permit back
cancel_upload_cleanup(s, failing) ==
    /\ task_type[s] = UPLOAD
    /\ pc[s] = "w_unlink"
    /\ failing \subseteq pending[s]
    /\ (pending[s] \ fs) \subseteq failing
    /\ fs' = fs \ (pending[s] \ failing)
    /\ SemRelease(UPLOAD)
    /\ permit' = Set(permit, s, FALSE)
    /\ pc' = Set(pc, s, "done")
    /\ Forget(s)
    /\ UNCHANGED <<counter, tasks, lock, task_type, task_id, issued,
                   removeCalls, direct>>

cancel(s) ==
    \/ cancel_waiting(s)
    \/ cancel_download(s)
    \/ \E failing \in SUBSET pending[s] : cancel_download_cleanup(s, failing)
    \/ cancel_upload(s)
    \/ \E failing \in SUBSET pending[s] : cancel_upload_cleanup(s, failing)

CancelNext == Next \/ \E s \in Slots : cancel(s)

CancelSpec == Init /\ [][CancelNext]_vars

\* C14: a registered worker cancelled at any of its suspension points, the
\* wait for its permit included, has still removed its registry entry,
\* exactly once, and given back its permit by the time its coroutine is over.
C14_CancelledStillRemoved ==
    \A s \in Slots :
        pc[s] = "done" =>
            /\ removeCalls[s] = 1
            /\ task_id[s] \notin DOMAIN tasks
            /\ ~permit[s]

\* ------------------------------------------------------------------ C15
\* The steps that are bound to happen once they can: every step of Step(s)
\* but the end of a transfer, which is up to the peer.  wait_for ends the
\* download after DOWNLOAD_TIMEOUT and _run_command kills a subprocess after
\* its timeout, so those steps are kept; send_file has no timeout around it.
TimedStep(s) ==
    \/ lock_acquire(s)
    \/ reserve_task_id(s)
    \/ register_task(s)
    \/ remove_task(s)
    \/ download_worker_acquire(s)
    \/ download_media_open(s, "timeout")
    \/ download_media(s, "timeout")
    \/ \E ok \in BOOLEAN : download_report_success(s, ok)
    \/ \E ok \in BOOLEAN : download_report_failure(s, ok)
    \/ upload_worker_acquire(s)
    \/ upload_worker_exists(s)
    \/ \E is_video \in ProbeResults : upload_worker_probe(s, is_video)
    \/ \E run \in RunOutcomes, wrote \in BOOLEAN :
           upload_worker_optimize(s, run, wrote)
    \/ \E m \in MetadataResults : upload_worker_metadata(s, m)
    \/ \E run \in RunOutcomes, wrote \in BOOLEAN :
           upload_worker_thumbnail(s, run, wrote)
    \/ \E ok \in BOOLEAN : upload_report_success(s, ok)
    \/ \E ok \in BOOLEAN : upload_report_failure(s, ok)
    \/ \E failing \in SUBSET pending[s] : cleanup_file(s, failing)
    \/ worker_exit(s)

TimeoutSpec == Spec /\ \A s \in Slots : WF_vars(TimedStep(s))

\* C15: each pipeline is bounded by a wall-clock timeout, so every worker
\* that acquired a permit eventually ends (terminal state, deregistered,
\* permit given back) even when its transfer never completes, and every task
\* waiting for a pool is eventually admitted.
C15_BoundedPipelines ==
    \A s \in Slots :
        /\ permit[s] ~> (pc[s] = "done" /\ ~permit[s])
        /\ (pc[s] = "w_acquire") ~> permit[s]

\* ------------------------------------------------------------------ C16
\* the paths a task writes, reads or deletes
Artifacts(s) ==
    IF task_type[s] = DOWNLOAD
    THEN {save_path(s)}
    ELSE {original_path(s),
          with_stem_stream(original_path(s)),
          with_suffix_jpg(original_path(s)),
          with_suffix_jpg(with_stem_stream(original_path(s)))}

\* C16: no file system artifact is shared across tasks: whatever /download
\* and /upload commands arrive, two live tasks never have a path (destination
\* file, source file, optimized copy, thumbnail) in common.
C16_PrivateArtifacts ==
    \A s, r \in Slots :
        s # r /\ Live(s) /\ Live(r) => Artifacts(s) \cap Artifacts(r) = {}

\* ------------------------------------------------------------------ C17
\* C17: a worker's coroutine never ends by raising: whatever stage fails,
\* the terminal report to the requester included, the error is caught inside
\* the worker.
C17_NeverRaises ==
    \A s \in Slots : ~raised[s]

\* ------------------------------------------------------------------ C18
\* The FFmpeg adapter called directly, as the upload worker calls it; the
\* arguments recorded are how the subprocess run ended and what it left
\* (its output, or whether its output file is there).
AdapterOps == {"check_if_video", "get_video_metadata", "generate_thumbnail",
               "optimize_for_streaming"}

call_check_if_video(run, out) ==
    /\ called' = Call("check_if_video", <<run, out>>)
    /\ ret' = check_if_video(run, out)
    /\ UNCHANGED <<shared, pc, locals, history, now, last_update, emitted>>

call_get_video_metadata(run, out) ==
    /\ called' = Call("get_video_metadata", <<run, out>>)
    /\ ret' = get_video_metadata(run, out)
    /\ UNCHANGED <<shared, pc, locals, history, now, last_update, emitted>>

call_generate_thumbnail(run, exists) ==
    /\ exists \in MayWrite(run)
    /\ called' = Call("generate_thumbnail", <<run, exists>>)
    /\ ret' = generate_thumbnail(run, with_suffix_jpg("a.mp4"), exists)
    /\ UNCHANGED <<shared, pc, locals, history, now, last_update, emitted>>

call_optimize_for_streaming(run, exists) ==
    /\ exists \in MayWrite(run)
    /\ called' = Call("optimize_for_streaming", <<run, exists>>)
    /\ ret' = optimize_for_streaming(run, with_stem_stream("a.mp4"), exists)
    /\ UNCHANGED <<shared, pc, locals, history, now, last_update, emitted>>

AdapterNext ==
    \/ \E run \in RunOutcomes, out \in FormatOutputs :
           call_check_if_video(run, out)
    \/ \E run \in RunOutcomes, out \in StreamOutputs :
           call_get_video_metadata(run, out)
    \/ \E run \in RunOutcomes, exists \in BOOLEAN :
           call_generate_thumbnail(run, exists)
    \/ \E run \in RunOutcomes, exists \in BOOLEAN :
           call_optimize_for_streaming(run, exists)

AdapterSpec == Init /\ [][AdapterNext]_vars

\* why a call failed: a non-zero exit status, the timeout, or output that
\* does not parse; None for any other call
FailureCause(c) ==
    IF c.op \notin AdapterOps THEN None
    ELSE IF c.args[1] = "nonzero" THEN "nonzero"
    ELSE IF c.args[1] = "timeout" THEN "timeout"
    ELSE IF c.args[1] # "ok" THEN None
    ELSE IF c.op = "check_if_video" /\ c.args[2] = "malformed"
         THEN "malformed"
    ELSE IF c.op = "get_video_metadata" /\ c.args[2][1] = "malformed"
         THEN "malformed"
    ELSE None

\* C18: for each adapter operation the value returned to the worker tells
\* the failure causes apart: two calls of the same operation that fail for
\* different causes (non-zero exit status, timeout, malformed output) return
\* different values.
C18_CauseStep ==
    /\ called.op \in AdapterOps
    /\ called'.op = called.op
    /\ FailureCause(called) # None
    /\ FailureCause(called') # None
    /\ FailureCause(called) # FailureCause(called')
    => ret' # ret

C18_CausesDistinguished == [][C18_CauseStep]_vars

\* ------------------------------------------------------------------ C19
\* The callbacks of create_progress_callback invoked directly, at times that
\* never decrease; time.time() is positive.
\* mutant: the throttle alone decides
ShouldEmitThrottleOnly(elapsed, current, total, last) ==
    elapsed >= interval

\* `elapsed >= interval or current == total or last_update["time"] == 0`
ShouldEmit(elapsed, current, total, last) ==
    \/ elapsed >= interval
    \/ current = total
    \/ last = 0

callback(c, current, total) ==
    LET elapsed == now - last_update[c]
        emit == ShouldEmit(elapsed, current, total, last_update[c])
    IN  /\ emitted' = Set(emitted, c, emit)
        /\ last_update' = IF emit THEN Set(last_update, c, now)
                          ELSE last_update
        /\ called' = Call("callback", <<c, current, total>>)
        /\ ret' = None
        /\ UNCHANGED <<shared, pc, locals, history, now>>

\* time passes
tick ==
    /\ now < MaxTime
    /\ now' = now + 1
    /\ UNCHANGED <<shared, pc, locals, history, called, ret, last_update,
                   emitted>>

ProgressNext ==
    \/ \E c \in Callbacks, total \in 0..MaxBytes :
           \E current \in 0..total : callback(c, current, total)
    \/ tick

ProgressSpec == Init /\ [][ProgressNext]_vars

\* C19: every invocation with current = total emits, the first invocation
\* emits, any other invocation emits exactly when at least `interval` has
\* passed since the callback's last emission (so two consecutive emissions
\* whose later one is no completion are at least `interval` apart), and an
\* invocation of one callback leaves the throttling of the other alone.
C19_InvocationStep ==
    \A c \in Callbacks, total \in 0..MaxBytes, current \in 0..MaxBytes :
        called' = Call("callback", <<c, current, total>>) /\ now' = now =>
            /\ current = total => emitted'[c]
            /\ last_update[c] = 0 => emitted'[c]
            /\ current # total /\ last_update[c] # 0 =>
                   (emitted'[c] <=> now - last_update[c] >= interval)
            /\ last_update'[c] = IF emitted'[c] THEN now ELSE last_update[c]
            /\ \A d \in Callbacks \ {c} :
                   last_update'[d] = last_update[d] /\ emitted'[d] = emitted[d]

C19_Throttled == [][C19_InvocationStep]_vars

\* cb1 has just been throttled, less than `interval` after its last
\* emission, while cb2 emitted in between
C19_Witness ==
    /\ called.op = "callback"
    /\ called.args[1] = "cb1"
    /\ called.args[2] # called.args[3]
    /\ ~emitted["cb1"]
    /\ last_update["cb1"] > 0
    /\ now - last_update["cb1"] < interval
    /\ emitted["cb2"]
    /\ last_update["cb2"] > last_update["cb1"]

\* ------------------------------------------------------------------ C20
\* positions of the handler, before register_task has run
BeforeRegistration ==
    {"idle", "h_reserve", "h_reserve_cs", "h_register", "h_register_cs"}

\* C20: register_task records the entry and creates the work handle in one
\* atomic step: the worker exists from the step that puts its entry in the
\* registry, every step the worker takes up to its remove_task finds the
\* entry there, and no entry is left once the worker has finished, however
\* soon it fails.
C20_EntryState ==
    \A s \in Slots :
        /\ pc[s] \in BeforeRegistration => ~Registered(s)
        /\ pc[s] = "done" => task_id[s] \notin DOMAIN tasks

C20_EntryStep ==
    \A s \in Slots :
        /\ pc[s] = "h_register_cs" /\ pc'[s] # pc[s] =>
               pc'[s] = "w_acquire" /\ Registered(s)'
        /\ Live(s) /\ pc'[s] # pc[s] => Registered(s)
        /\ Registered(s) /\ ~Registered(s)' => pc[s] = "w_remove_cs"

C20_AtomicRegistration ==
    /\ C20_EntryState
    /\ [][C20_EntryState' /\ C20_EntryStep]_vars

\* a download that failed at once has been deregistered while the next
\* command is inside register_task
C20_Witness ==
    \E s, r \in Slots :
        /\ task_type[s] = DOWNLOAD
        /\ Deregistered(s)
        /\ transfer[s] = "error"
        /\ save_path(s) \notin fs
        /\ task_id[s] \notin DOMAIN tasks
        /\ pc[r] = "h_register_cs"

\* ------------------------------------------------------------------ C21
\* the workers of a kind that hold a permit
Holders(tt) == {s \in Slots : permit[s] /\ task_type[s] = tt}

\* C21: the two pools are independent and conserved: for each kind the free
\* permits plus the permits held by workers of that kind make the configured
\* capacity, a worker takes and gives back one permit of its own kind's
\* semaphore and never touches the other, and a worker waiting for a pool
\* that has a free permit is admitted whatever the state of the other pool.
C21_Conserved ==
    /\ download_sem + Cardinality(Holders(DOWNLOAD)) = MaxDownloads
    /\ upload_sem + Cardinality(Holders(UPLOAD)) = MaxUploads
    /\ download_sem \in 0..MaxDownloads
    /\ upload_sem \in 0..MaxUploads
    /\ \A s \in Slots :
           /\ pc[s] = "w_acquire" /\ task_type[s] = UPLOAD /\ upload_sem > 0
                  => ENABLED upload_worker_acquire(s)
           /\ pc[s] = "w_acquire" /\ task_type[s] = DOWNLOAD /\ download_sem > 0
                  => ENABLED download_worker_acquire(s)

C21_OwnPool ==
    \A s \in Slots :
        /\ permit[s] # permit'[s] /\ task_type[s] = DOWNLOAD =>
               /\ upload_sem' = upload_sem
               /\ download_sem' = IF permit'[s] THEN download_sem - 1
                                  ELSE download_sem + 1
        /\ permit[s] # permit'[s] /\ task_type[s] = UPLOAD =>
               /\ download_sem' = download_sem
               /\ upload_sem' = IF permit'[s] THEN upload_sem - 1
                                ELSE upload_sem + 1

C21_IndependentPools ==
    /\ C21_Conserved
    /\ [][C21_Conserved' /\ C21_OwnPool]_vars

\* the download pool is exhausted and an upload is being admitted all the same
C21_Witness ==
    \E s, r \in Slots :
        /\ download_sem = 0
        /\ task_type[r] = DOWNLOAD
        /\ pc[r] = "d_xfer"
        /\ task_type[s] = UPLOAD
        /\ pc[s] = "u_exists"
        /\ permit[s]

\* ------------------------------------------------------------------ C22
\* positions of upload_worker after its pipeline stages
UploadTerminal == {"w_unlink", "w_remove", "w_remove_cs", "w_exit", "done"}

\* C22: when the source file is not there at the upload worker's own check,
\* made after the permit was acquired, the task ends in File Not Found: no
\* stage has run before the check, the check goes straight to the File Not
\* Found clause, and from there the worker only reports, cleans up and
\* deregisters: no probe, optimization, metadata extraction, thumbnail or
\* transfer is invoked for that task.
C22_NothingBeforeCheck ==
    \A s \in Slots :
        pc[s] = "u_exists" =>
            /\ outcome[s] = None
            /\ optResult[s] = None
            /\ meta[s] = None
            /\ thumb_path[s] = None
            /\ sent[s] = None
            /\ transfer[s] = None

C22_NotFoundStep ==
    \A s \in Slots :
        /\ pc[s] = "u_exists" /\ original_path(s) \notin fs /\ pc'[s] # pc[s] =>
               pc'[s] = "u_notfound" /\ outcome'[s] = "NotFound"
        /\ task_type[s] = UPLOAD /\ outcome[s] = "NotFound" /\ pc'[s] # pc[s] =>
               /\ pc'[s] \in UploadTerminal
               /\ pc'[s] # "done" =>
                      /\ outcome'[s] = "NotFound"
                      /\ optResult'[s] = optResult[s]
                      /\ meta'[s] = meta[s]
                      /\ thumb_path'[s] = thumb_path[s]
                      /\ sent'[s] = sent[s]
                      /\ transfer'[s] = transfer[s]

C22_FailFast ==
    /\ C22_NothingBeforeCheck
    /\ [][C22_NothingBeforeCheck' /\ C22_NotFoundStep]_vars

\* an upload found its source gone: a task that finished before removed it
\* after the command handler's check
C22_Witness ==
    \E s, r \in Slots :
        /\ pc[r] = "done"
        /\ task_type[s] = UPLOAD
        /\ pc[s] = "u_notfound"
        /\ outcome[s] = "NotFound"
        /\ original_path(s) \notin fs
        /\ meta[s] = None
        /\ sent[s] = None

\* ------------------------------------------------------------------ C23
\* positions of upload_worker from the metadata stage on, up to its exit
AfterOptimize == {"u_metadata", "u_thumb", "u_send", "u_ok", "u_error",
                  "w_unlink", "w_remove", "w_remove_cs", "w_exit"}

\* C23: in the upload worker the file probed for metadata, the file the
\* thumbnail is made from and the file given to the transfer are one path:
\* upload_path is settled before the metadata stage and does not change
\* afterwards, the thumbnail is the one of upload_path, send_file gets
\* upload_path, and that path is the optimized copy exactly when the
\* optimized flag is true, the original source otherwise.
C23_OnePath ==
    \A s \in Slots :
        task_type[s] = UPLOAD /\ pc[s] \in UploadBody =>
            /\ upload_path[s] = IF optimized[s]
                                THEN with_stem_stream(original_path(s))
                                ELSE original_path(s)
            /\ optimized[s] => optimized_path[s] = upload_path[s]
            /\ thumb_path[s] # None =>
                   thumb_path[s] = with_suffix_jpg(upload_path[s])
            /\ sent[s] # None => sent[s] = upload_path[s]

C23_PathSettled ==
    \A s \in Slots :
        task_type[s] = UPLOAD /\ pc[s] \in AfterOptimize /\ pc'[s] # "done" =>
            upload_path'[s] = upload_path[s] /\ optimized'[s] = optimized[s]

C23_SamePath ==
    /\ C23_OnePath
    /\ [][C23_OnePath' /\ C23_PathSettled]_vars

\* an optimized copy was probed, thumbnailed and sent
C23_Witness ==
    \E s \in Slots :
        /\ task_type[s] = UPLOAD
        /\ pc[s] = "u_ok"
        /\ optimized[s]
        /\ meta[s] = "ok"
        /\ thumb_path[s] = with_suffix_jpg(with_stem_stream(original_path(s)))
        /\ sent[s] = with_stem_stream(original_path(s))

\* ------------------------------------------------------------------ C24
\* the thumbnail stage has run and gave no thumbnail
ThumbFailed(s) ==
    /\ task_type[s] = UPLOAD
    /\ meta[s] = "ok"
    /\ pc[s] \in AfterOptimize \ {"u_metadata", "u_thumb"}
    /\ thumb_path[s] = None

\* C24 as stated: a failed thumbnail generation never changes the upload's
\* outcome: the transfer is still attempted, without a thumbnail, and the
\* outcome is the one the transfer determines (Success when it returns,
\* Failure when it raises).
C24_Original ==
    \A s \in Slots :
        ThumbFailed(s) /\ Deregistered(s) =>
            /\ sent[s] = upload_path[s]
            /\ transfer[s] = "ok" <=> outcome[s] = "Success"

\* C24 (amended): a failed thumbnail generation, whatever its cause, never
\* ends the upload: the thumbnail stage always hands over to the transfer
\* with the outcome still open, the transfer is attempted with no thumbnail
\* attached, and the outcome is Failure when the transfer raises and, when it
\* returns, Success unless the Success report raises (then Failure).
C24_AfterFailure ==
    \A s \in Slots :
        ThumbFailed(s) =>
            /\ pc[s] = "u_send" => outcome[s] = None /\ sent[s] = None
            /\ pc[s] # "u_send" => sent[s] = upload_path[s]
            /\ outcome[s] = "Success" => transfer[s] = "ok"
            /\ transfer[s] = "error" => outcome[s] = "Failure"
            /\ Deregistered(s) => outcome[s] \in {"Success", "Failure"}

C24_ThumbnailStep ==
    \A s \in Slots :
        pc[s] = "u_thumb" /\ pc'[s] # pc[s] =>
            /\ pc'[s] = "u_send"
            /\ outcome'[s] = outcome[s]
            /\ upload_path'[s] = upload_path[s]

C24_ThumbnailBestEffort ==
    /\ C24_AfterFailure
    /\ [][C24_AfterFailure' /\ C24_ThumbnailStep]_vars

\* an upload whose thumbnail could not be made was sent and ended in Success
C24_Witness ==
    \E s \in Slots :
        /\ ThumbFailed(s)
        /\ Deregistered(s)
        /\ sent[s] = upload_path[s]
        /\ transfer[s] = "ok"
        /\ outcome[s] = "Success"

\* ------------------------------------------------------------------ C25
\* C25: when an upload task is deregistered, its source file and every
\* artifact its pipeline created (the optimized copy, the thumbnail,
\* whenever the adapter wrote such a file) are gone from disk, on every exit
\* path, those where optimization or thumbnail generation failed or timed
\* out included (no unlink having failed, no other task around).
C25_ArtifactsRemoved ==
    \A s \in Slots :
        /\ task_type[s] = UPLOAD
        /\ Deregistered(s)
        /\ unlinkFailed[s] = {}
        /\ Alone(s)
        => Artifacts(s) \cap fs = {}

\* ------------------------------------------------------------------ C26
\* the ways the probe can end other than "ran and named a video format"
ProbeDenials ==
    {ro \in RunOutcomes \X FormatOutputs : ~(ro[1] = "ok" /\ ro[2] = "video")}

\* optimization has been invoked only for a name with a video extension,
\* and until it is invoked the source is the file in hand and nothing has
\* been decided
C26_Gate ==
    \A s \in Slots :
        /\ optResult[s] # None \/ pc[s] \in {"u_probe", "u_optimize"}
           => suffix(original_path(s)) \in VIDEO_EXTENSIONS
        /\ pc[s] \in {"u_probe", "u_optimize"}
           => /\ upload_path[s] = original_path(s)
              /\ outcome[s] = None
              /\ optResult[s] = None
        /\ task_type[s] = UPLOAD /\ pc[s] \in AfterOptimize
                                  /\ optResult[s] = None
           => /\ upload_path[s] = original_path(s)
              /\ ~optimized[s]
              /\ optimized_path[s] = None

\* the three ways round the optimization: the existence check of a name
\* without a video extension, and a probe that denies or fails, go on to the
\* metadata stage; the optimization is entered from an affirming probe only
C26_GateStep ==
    \A s \in Slots :
        /\ /\ pc[s] = "u_exists"
           /\ pc'[s] # pc[s]
           /\ original_path(s) \in fs
           /\ suffix(original_path(s)) \notin VIDEO_EXTENSIONS
           => /\ pc'[s] = "u_metadata"
              /\ outcome'[s] = None
              /\ optResult'[s] = None
        /\ \A ro \in ProbeDenials :
               upload_worker_probe(s, check_if_video(ro[1], ro[2]))
               => /\ pc'[s] = "u_metadata"
                  /\ outcome'[s] = None
                  /\ optResult'[s] = None
                  /\ fs' = fs
        /\ pc'[s] = "u_optimize" /\ pc[s] # "u_optimize"
           => upload_worker_probe(s, check_if_video("ok", "video"))

\* C26: optimization is attempted only when the extension is one of
\* VIDEO_EXTENSIONS and the probe confirms a video; when the extension does
\* not match, the probe denies, or the probe fails for any reason, the
\* optimization is not invoked and the pipeline goes on with the unmodified
\* source instead of failing.
C26_OptimizationGated == C26_Gate /\ [][C26_Gate' /\ C26_GateStep]_vars

\* an upload of a video-named file whose probe did not confirm it was
\* delivered unmodified
C26_Witness ==
    \E s \in Slots :
        /\ task_type[s] = UPLOAD
        /\ suffix(original_path(s)) \in VIDEO_EXTENSIONS
        /\ Deregistered(s)
        /\ optResult[s] = None
        /\ outcome[s] = "Success"
        /\ sent[s] = original_path(s)

\* ------------------------------------------------------------------ C27
\* the permit holders of a kind whose remove_task has not run yet
Running(tt) == {s \in Holders(tt) : pc[s] # "w_exit"}

\* C27 as stated: in every reachable state the permit-holding tasks of a kind
\* are among the registered tasks of that kind.
C27_Original ==
    \A tt \in {DOWNLOAD, UPLOAD} :
        {task_id[s] : s \in Holders(tt)} \subseteq get_tasks_by_type(tt)

C27_RunningListed ==
    \A tt \in {DOWNLOAD, UPLOAD} :
        /\ {task_id[s] : s \in Running(tt)} \subseteq get_tasks_by_type(tt)
        /\ \A s \in Holders(tt) \ Running(tt) :
               /\ removeCalls[s] = 1
               /\ task_id[s] \notin get_all_tasks

\* once its own remove_task has run, the one step a holder takes gives the
\* permit back
C27_ExitStep ==
    \A s \in Slots :
        pc[s] = "w_exit" /\ pc'[s] # pc[s] => ~permit'[s] /\ pc'[s] = "done"

\* C27 (amended): every worker that holds a permit and whose own remove_task
\* has not run yet has an entry in the registry, so get_tasks_by_type lists
\* every such task of the kind (and may list more than the capacity, since
\* waiting tasks are registered too); a worker whose remove_task has run
\* holds its permit with no entry until its next step, which releases it.
C27_HoldersRegistered ==
    C27_RunningListed /\ [][C27_RunningListed' /\ C27_ExitStep]_vars

\* more uploads are listed than the capacity, one of them holding the permit
C27_Witness ==
    /\ Cardinality(get_tasks_by_type(UPLOAD)) > MaxUploads
    /\ \E s \in Running(UPLOAD) : task_id[s] \in get_tasks_by_type(UPLOAD)

\* ------------------------------------------------------------------ C28
\* the steps of the three registry calls; each is taken once it can be,
\* whatever becomes of the transfers, subprocesses and reports
LockStep(s) ==
    \/ lock_acquire(s)
    \/ reserve_task_id(s)
    \/ register_task(s)
    \/ remove_task(s)

LockFairSpec == Spec /\ \A s \in Slots : WF_vars(LockStep(s))

\* positions inside `async with self._lock:`
LockBody == {"h_reserve_cs", "h_register_cs", "w_remove_cs"}

\* the lock is held by a call that is inside its critical section and can
\* finish it at once; no task that waits for a permit, a transfer, a
\* subprocess or a report holds it
C28_LockAtCalls ==
    /\ lock \in Slots \cup {0}
    /\ \A s \in Slots :
           /\ lock = s <=> pc[s] \in LockBody
           /\ lock = s => ENABLED LockStep(s)
           /\ pc[s] \in {"w_acquire"} \cup DownloadAwaits \cup UploadAwaits
                  => lock # s

\* C28: the registry lock and the two semaphores never deadlock: the lock is
\* never held while a task waits for a permit, a transfer, a subprocess or a
\* report, so under fair scheduling every reserve_task_id, register_task and
\* remove_task call eventually acquires the lock and returns, even when all
\* permits are held and further tasks are waiting.
C28_NoDeadlock ==
    /\ []C28_LockAtCalls
    /\ \A s \in Slots :
           /\ pc[s] = "h_reserve" ~> pc[s] = "h_register"
           /\ pc[s] = "h_register" ~> pc[s] = "w_acquire"
           /\ pc[s] = "w_remove" ~> pc[s] = "w_exit"

\* remove_task holds the lock while the only upload permit is taken and
\* another upload waits for it
C28_Witness ==
    \E s, r \in Slots :
        /\ pc[s] = "w_acquire"
        /\ task_type[s] = UPLOAD
        /\ upload_sem = 0
        /\ pc[r] = "w_remove_cs"
        /\ lock = r

\* ------------------------------------------------------------------ C29
\* FileManager.cleanup_files called directly: one cleanup_file coroutine per
\* path that is not None, run concurrently by gather. Coroutine i has pc[i]
\* ("c_exists" before its existence check, "c_unlink" while the executor
\* runs its unlink, "c_done" once it has returned), its path in pending[i]
\* and what it returned in outcome[i].
Coroutines(paths) == {i \in Slots : paths[i] # None}

\* `for path in file_paths if path is not None`: the positions kept, in order
Kept(paths) ==
    SelectSeq([i \in 1..NumTasks |-> i], LAMBDA i : paths[i] # None)

\* no cleanup_files call is under way: `called` names the call while its
\* coroutines run and its return once gather has handed back the results
NoCall == called.op # "cleanup_files"

call_cleanup_files(paths) ==
    /\ NoCall
    /\ called' = Call("cleanup_files", paths)
    /\ ret' = None
    /\ pc' = [i \in Slots |->
                 IF i \in Coroutines(paths) THEN "c_exists" ELSE "idle"]
    /\ pending' = [i \in Slots |->
                      IF i \in Coroutines(paths) THEN {paths[i]} ELSE {}]
    /\ outcome' = [i \in Slots |-> None]
    /\ UNCHANGED <<shared, task_type, filename, task_id, thumb_path,
                   optimized_path, upload_path, optimized, permit, issued,
                   removeCalls, transfer, sent, meta, optResult, cleaned,
                   unlinkFailed, raised, now, last_update, emitted>>

\* `if not file_path or not file_path.exists(): return False`
child_exists(i) ==
    /\ pc[i] = "c_exists"
    /\ IF pending[i] \subseteq fs
       THEN /\ pc' = Set(pc, i, "c_unlink")
            /\ UNCHANGED outcome
       ELSE /\ pc' = Set(pc, i, "c_done")
            /\ outcome' = Set(outcome, i, CleanupReturn(FALSE, FALSE))
    /\ UNCHANGED <<shared, locals, issued, removeCalls, transfer, sent, meta,
                   optResult, cleaned, unlinkFailed, raised, direct>>

\* mutant: unlinking a file that is gone counts as a removal
child_unlink_missing_ok(i, oserror) ==
    /\ pc[i] = "c_unlink"
    /\ fs' = IF oserror THEN fs ELSE fs \ pending[i]
    /\ outcome' = Set(outcome, i,
                      CleanupReturn(TRUE, oserror /\ pending[i] \subseteq fs))
    /\ pc' = Set(pc, i, "c_done")
    /\ UNCHANGED <<counter, tasks, lock, download_sem, upload_sem, locals,
                   issued, removeCalls, transfer, sent, meta, optResult,
                   cleaned, unlinkFailed, raised, direct>>

\* the executor's unlink ends: FileNotFoundError when the file is gone by
\* now, otherwise the file is removed or another OSError is raised
child_unlink(i, oserror) ==
    LET failed == oserror \/ ~(pending[i] \subseteq fs)
    IN  /\ pc[i] = "c_unlink"
        /\ fs' = IF failed THEN fs ELSE fs \ pending[i]
        /\ outcome' = Set(outcome, i, CleanupReturn(TRUE, failed))
        /\ pc' = Set(pc, i, "c_done")
        /\ UNCHANGED <<counter, tasks, lock, download_sem, upload_sem, locals,
                       issued, removeCalls, transfer, sent, meta, optResult,
                       cleaned, unlinkFailed, raised, direct>>

\* asyncio.gather(*tasks, return_exceptions=False): the first exception of a
\* coroutine at once, otherwise the results in argument order once every
\* coroutine has returned
gather(paths) ==
    /\ called = Call("cleanup_files", paths)
    /\ called' = Call("return", paths)
    /\ IF \E i \in Coroutines(paths) : outcome[i] = "OSError"
       THEN ret' = "OSError"
       ELSE /\ \A i \in Coroutines(paths) : pc[i] = "c_done"
            /\ ret' = [k \in 1..Len(Kept(paths)) |->
                           outcome[Kept(paths)[k]]]
    /\ UNCHANGED <<shared, pc, locals, history, now, last_update, emitted>>

\* between two calls a file is written
written_between(p) == NoCall /\ file_written(p)

FileArgs == [Slots -> Filenames \cup {None}]

GatherNext ==
    \/ \E paths \in FileArgs : call_cleanup_files(paths)
    \/ \E i \in Slots : child_exists(i)
    \/ \E i \in Slots, oserror \in BOOLEAN : child_unlink(i, oserror)
    \/ \E paths \in FileArgs : gather(paths)
    \/ \E p \in Filenames : written_between(p)

GatherSpec == Init /\ [][GatherNext]_vars

\* the coroutines working on path p, and those that returned True
On(p) == {i \in Slots : pending[i] = {p} /\ pc[i] # "idle"}
Removed(p) == {i \in On(p) : outcome[i] = "True"}
Returned == called.op = "return"
Concurrent(p) == called.op \in {"cleanup_files", "return"}
                 /\ Cardinality(On(p)) > 1

C29_Race ==
    /\ \A i \in Slots : outcome[i] \in {None, "True", "False"}
    /\ \A p \in Filenames :
           Concurrent(p) =>
               /\ Cardinality(Removed(p)) <= 1
               /\ Removed(p) # {} => p \notin fs
    /\ Returned =>
           /\ Len(ret) = Cardinality(Coroutines(called.args))
           /\ \A i \in Coroutines(called.args) : pc[i] = "c_done"
           /\ \A k \in 1..Len(ret) :
                  /\ ret[k] = outcome[Kept(called.args)[k]]
                  /\ ret[k] \in {"True", "False"}

\* a file still there after all invocations have returned was found by each
\* of them and its unlink failed each time
C29_FailedStep ==
    \A i \in Slots, oserror \in BOOLEAN :
        child_unlink(i, oserror) =>
            /\ outcome'[i] = "True" <=> pending[i] \subseteq fs /\ ~oserror
            /\ outcome'[i] = "True" => fs' = fs \ pending[i]
            /\ outcome'[i] = "False" => fs' = fs
            /\ pending[i] \subseteq fs' => oserror

====
